---- MODULE Spec2Model ----
(***************************************************************************)
(* Model of druid's interactive console (src/druid/ui/repl.py):            *)
(*   run()                 startup, the two loops, the ordered stop        *)
(*   DruidRepl             accept_input (foreground), process_crow_output  *)
(*                         (background), on_connect                        *)
(*   DruidParser           __init__ (default script), parse (dispatch)     *)
(* Text is a sequence of one-character strings, so that splitting,         *)
(* concatenation and the "\r\n" terminator are computed, not assumed.      *)
(* Every call on the Transport (crow), on the Output Sink (tty), on the    *)
(* logger and on stdout is appended to one global trace, in program order. *)
(***************************************************************************)
EXTENDS Integers, Sequences, FiniteSets, TLC

\* ---------------------------------------------------------------- bounds
MaxLen   == 3      \* longest operator line enumerated by SpecParse
MaxLines == 2      \* operator lines accepted in one session
MaxPolls == 2      \* background iterations in one session
MaxWire  == 4      \* most bytes the device sends in SpecFraming

\* ------------------------------------------------------ program constants
SleepConnected == 1        \* sleeptime = 0.001 s, in milliseconds
SleepReconnect == 1000     \* sleeptime = 1.0 s, in milliseconds
ReadMax        == 10000    \* self.crow.read(10000)

\* --------------------------------------------------------------- alphabet
Whitespace == {" "}
Alphabet   == {"q", "r", "u", "p", "h", "a", " "}

RECURSIVE SeqsUpTo(_, _)
SeqsUpTo(S, n) ==
    IF n = 0 THEN {<<>>}
    ELSE LET shorter == SeqsUpTo(S, n - 1)
         IN  shorter \cup {Append(s, c) : s \in {t \in shorter : Len(t) = n - 1}, c \in S}

Lines == SeqsUpTo(Alphabet, MaxLen)

\* lines an operator types in the session specification: a no-op, a quit,
\* a help, and a line that runs the script a or, when a is no file, is
\* passed through to the device
SessionLines ==
    { <<>>, <<"q">>, <<"r", " ", "a">>, <<"h">> }

\* candidate script files of the working directory (os.path.isfile)
CandidateFiles == {<<"a">>}

\* bytes of the device: the markers of a stream and of a change line, the
\* digits of an index or a value, and the newline that ends a line
Digits       == {"1", "2"}
ByteAlphabet == {"s", "c", "\n"} \cup Digits
\* every short byte sequence, and one longer one that carries two events
TwoEventWire == <<"c", "1", "2", "\n", "s", "2", "1", "\n">>
Wires        == SeqsUpTo(ByteAlphabet, MaxWire) \cup {TwoEventWire}

\* what the device sends in the session specification: one line of text
SessionWires == { <<"1", "\n">> }

\* ---------------------------------------------------------- module names
\* names bound at module level of repl.py: its imports, functions, classes
ModuleGlobals ==
    { "FileType", "asyncio", "logging", "os", "sys",
      "Application", "get_app", "Document", "use_asyncio_event_loop",
      "KeyBindings", "VSplit", "HSplit", "Window", "WindowAlign", "Layout",
      "Char", "patch_stdout", "Style", "TextArea", "FormattedTextControl",
      "Crow", "CrowParser", "DeviceNotFoundError", "CLICommand", "TextAreaTTY",
      "logger", "run", "DRUID_INTRO", "DRUID_HELP", "DruidRepl", "DruidParser",
      "ExitDruid" }

\* evaluating a global name that is not bound raises NameError
NameDefined(n) == n \in ModuleGlobals

\* ------------------------------------------------------------------ texts
DRUID_HELP ==
    << "\n",
       " h            this menu\n",
       " r            runs 'sketch.lua'\n",
       " u            uploads 'sketch.lua'\n",
       " r <filename> run <filename>\n",
       " u <filename> upload <filename>\n",
       " p            print current userscript\n",
       " q            quit\n",
       "\n" >>

SketchLua      == <<".", "/", "s", "k", "e", "t", "c", "h", ".", "l", "u", "a">>
PrintCmd_caret == <<"^", "p">>
PrintCmd       == <<"^", "^", "p">>
Terminator     == <<"\r", "\n">>
LostConnection == <<" ", "<", "l", "o", "s", "t", " ", "c", "o", "n", "n", "e", "c", "t", "i", "o", "n", ">">>
Connected      == <<" ", "<", "c", "o", "n", "n", "e", "c", "t", "e", "d", "!", ">">>
Bye            == <<"b", "y", "e", ".">>

\* '\n> {}\n'.format(text)
Echo(text) == <<"\n", ">", " ">> \o text \o <<"\n">>

\* ----------------------------------------------------------------- config
EmptyMap == [k \in {} |-> <<>>]
Configs  == { EmptyMap,
              [scripts |-> EmptyMap],
              [scripts |-> [default |-> <<"a">>]] }
Scripts  == { <<>>, <<SketchLua>> }      \* script=None, or a script argument

VARIABLES
    pc,              \* position of run()
    config,          \* run()'s config argument
    script,          \* run()'s script argument: <<>> is None, <<path>> a path
    files,           \* paths for which os.path.isfile is true
    wire,            \* bytes the device has sent and crow.read has not returned
    parser_buf,      \* CrowParser: the partial line kept between calls
    default_script,  \* DruidParser.default_script
    input_text,      \* DruidRepl.input_field.text
    accepted,        \* the lines accept_input has been called with, in order
    fg,              \* foreground: the Application's run_async future
    bg,              \* background: the process_crow_output task
    bgCancel,        \* background_task.cancel() has been requested
    sleeptime,       \* process_crow_output's local sleeptime (ms)
    trace            \* every Transport / Sink / log / stdout call, in order

vars == << pc, config, script, files, wire, parser_buf, default_script, input_text, accepted,
           fg, bg, bgCancel, sleeptime, trace >>

Ev(actor, op, arg) == [actor |-> actor, op |-> op, arg |-> arg]

TransportOps == {"connect", "read", "write", "writeline", "execute", "upload"}

\* ------------------------------------------------------- str.split(maxsplit=1)
RECURSIVE lstrip(_)
lstrip(s) ==
    IF s = <<>> THEN <<>>
    ELSE IF Head(s) \in Whitespace THEN lstrip(Tail(s))
    ELSE s

RECURSIVE word(_)
word(s) ==
    IF s = <<>> THEN <<>>
    ELSE IF Head(s) \in Whitespace THEN <<>>
    ELSE <<Head(s)>> \o word(Tail(s))

\* a split that does not drop the empty leading field of a blank line
split1_keep_blank(s) ==
    LET a == lstrip(s)
        w == word(a)
        r == lstrip(SubSeq(a, Len(w) + 1, Len(a)))
    IN  IF r = <<>> THEN <<w>> ELSE <<w, r>>

split1(s) ==
    LET a == lstrip(s)
    IN  IF a = <<>> THEN <<>>
        ELSE LET w == word(a)
                 r == lstrip(SubSeq(a, Len(w) + 1, Len(a)))
             IN  IF r = <<>> THEN <<w>> ELSE <<w, r>>

\* no existence check on the remainder
isfile_always(path, fs) == TRUE
isfile(path, fs) == path \in fs

\* ------------------------------------------------- DruidParser.__init__
\* a fallback that names the file as the help text does
DefaultScript_bare_name(cfg) ==
    IF "scripts" \in DOMAIN cfg /\ "default" \in DOMAIN cfg["scripts"]
    THEN cfg["scripts"]["default"]
    ELSE <<"s", "k", "e", "t", "c", "h", ".", "l", "u", "a">>

DefaultScript(cfg) ==
    IF "scripts" \in DOMAIN cfg /\ "default" \in DOMAIN cfg["scripts"]
    THEN cfg["scripts"]["default"]
    ELSE SketchLua

\* ---------------------------------------------------- DruidParser.parse
\* The outcome of one call: the calls it makes, in order, and whether it
\* returns or raises ExitDruid.
Returns(calls) == [raises |-> "none", calls |-> calls]
Raises(exc)    == [raises |-> exc, calls |-> <<>>]

\* the line written without its terminator
passthrough_bare(s) == Returns(<<Ev("fg", "write", s)>>)

\* a passthrough that also reads the device's reply itself
passthrough_reads_reply(s) ==
    Returns(<< Ev("fg", "write", s \o Terminator), Ev("fg", "read", <<>>) >>)

\* self.crow.write(s + "\r\n")
passthrough(s) == Returns(<<Ev("fg", "write", s \o Terminator)>>)

\* a dispatch without the h branch: h goes to the device like any other line
parse_without_help(s, dflt, fs) ==
    LET parts == split1(s)
    IN  IF Len(parts) = 0 THEN Returns(<<>>)
        ELSE LET c == parts[1]
             IN  IF c = <<"q">> THEN Raises("ExitDruid")
                 ELSE IF c = <<"r">> THEN
                     IF Len(parts) = 1
                     THEN Returns(<<Ev("fg", "execute", dflt)>>)
                     ELSE IF Len(parts) = 2 /\ isfile(parts[2], fs)
                     THEN Returns(<<Ev("fg", "execute", parts[2])>>)
                     ELSE passthrough(s)
                 ELSE IF c = <<"u">> THEN
                     IF Len(parts) = 1
                     THEN Returns(<<Ev("fg", "upload", dflt)>>)
                     ELSE IF Len(parts) = 2 /\ isfile(parts[2], fs)
                     THEN Returns(<<Ev("fg", "upload", parts[2])>>)
                     ELSE passthrough(s)
                 ELSE IF c = <<"p">> THEN Returns(<<Ev("fg", "writeline", PrintCmd)>>)
                 ELSE passthrough(s)

parse(s, dflt, fs) ==
    LET parts == split1(s)
    IN  IF Len(parts) = 0 THEN Returns(<<>>)
        ELSE LET c == parts[1]
             IN  IF c = <<"q">> THEN Raises("ExitDruid")
                 ELSE IF c = <<"r">> THEN
                     IF Len(parts) = 1
                     THEN Returns(<<Ev("fg", "execute", dflt)>>)
                     ELSE IF Len(parts) = 2 /\ isfile(parts[2], fs)
                     THEN Returns(<<Ev("fg", "execute", parts[2])>>)
                     ELSE passthrough(s)
                 ELSE IF c = <<"u">> THEN
                     IF Len(parts) = 1
                     THEN Returns(<<Ev("fg", "upload", dflt)>>)
                     ELSE IF Len(parts) = 2 /\ isfile(parts[2], fs)
                     THEN Returns(<<Ev("fg", "upload", parts[2])>>)
                     ELSE passthrough(s)
                 ELSE IF c = <<"p">> THEN Returns(<<Ev("fg", "writeline", PrintCmd)>>)
                 ELSE IF c = <<"h">> THEN Returns(<<Ev("fg", "show", DRUID_HELP)>>)
                 ELSE passthrough(s)

\* ------------------------------------------------------------ trace helpers
Polls == Len(SelectSeq(trace, LAMBDA e : e.actor = "bg" /\ e.op = "read"))

\* ------------------------------------------------------------------- Init
Init ==
    /\ pc = "start"
    /\ config \in Configs
    /\ script \in Scripts
    /\ files \in SUBSET CandidateFiles
    /\ wire \in SessionWires
    /\ parser_buf = <<>>
    /\ default_script = <<>>
    /\ input_text = <<>>
    /\ accepted = <<>>
    /\ fg = "none"
    /\ bg = "none"
    /\ bgCancel = FALSE
    /\ sleeptime = 0
    /\ trace = <<>>

\* ------------------------------------------------------------------ run()
\* a startup that reports the missing device and goes on
RunConnect_continues ==
    /\ pc = "start"
    /\ \E found \in BOOLEAN :
          IF found
          THEN /\ trace' = Append(trace, Ev("run", "connect", <<>>))
               /\ pc' = IF script # <<>> THEN "execute" ELSE "setup"
          ELSE /\ trace' = trace \o << Ev("run", "connect", <<>>),
                                       Ev("run", "print", <<"DeviceNotFoundError">>) >>
               /\ pc' = "setup"
    /\ UNCHANGED << config, script, files, wire, parser_buf, default_script, input_text, accepted,
                    fg, bg, bgCancel, sleeptime >>

\* a startup that forgets the script argument
RunConnect_skip_script ==
    /\ pc = "start"
    /\ \E found \in BOOLEAN :
          IF found
          THEN /\ trace' = Append(trace, Ev("run", "connect", <<>>))
               /\ pc' = "setup"
          ELSE /\ trace' = trace \o << Ev("run", "connect", <<>>),
                                       Ev("run", "print", <<"DeviceNotFoundError">>),
                                       Ev("run", "exit", <<"1">>) >>
               /\ pc' = "exit1"
    /\ UNCHANGED << config, script, files, wire, parser_buf, default_script, input_text, accepted,
                    fg, bg, bgCancel, sleeptime >>

\* crow = Crow(); crow.connect(), DeviceNotFoundError -> print, sys.exit(1)
RunConnect ==
    /\ pc = "start"
    /\ \E found \in BOOLEAN :
          IF found
          THEN /\ trace' = Append(trace, Ev("run", "connect", <<>>))
               /\ pc' = IF script # <<>> THEN "execute" ELSE "setup"
          ELSE /\ trace' = trace \o << Ev("run", "connect", <<>>),
                                       Ev("run", "print", <<"DeviceNotFoundError">>),
                                       Ev("run", "exit", <<"1">>) >>
               /\ pc' = "exit1"
    /\ UNCHANGED << config, script, files, wire, parser_buf, default_script, input_text, accepted,
                    fg, bg, bgCancel, sleeptime >>

\* if script is not None: crow.execute(script)
RunExecute ==
    /\ pc = "execute"
    /\ trace' = Append(trace, Ev("run", "execute", script[1]))
    /\ \E ok \in BOOLEAN : pc' = IF ok THEN "setup" ELSE "crashed"
    /\ UNCHANGED << config, script, files, wire, parser_buf, default_script, input_text, accepted,
                    fg, bg, bgCancel, sleeptime >>

\* shell = DruidRepl(crow, config); background_task = asyncio.gather(...);
\* loop.run_until_complete(shell.foreground()) starts the event loop
RunSetup ==
    /\ pc = "setup"
    /\ default_script' = DefaultScript(config)
    /\ bg' = "pending"
    /\ fg' = "running"
    /\ pc' = "loops"
    /\ UNCHANGED << config, script, files, wire, parser_buf, input_text, accepted, bgCancel,
                    sleeptime, trace >>

\* a stop that cancels the background task but does not wait for it
RunFinally_no_wait ==
    /\ pc = "loops"
    /\ fg = "exited"
    /\ pc' = "returned"
    /\ bgCancel' = (bg # "dead")
    /\ UNCHANGED << config, script, files, wire, parser_buf, default_script, input_text, accepted,
                    fg, bg, sleeptime, trace >>

\* finally: background_task.cancel(); loop.run_until_complete(background_task)
\* cancel() of a gather whose only child is already done returns False and
\* run_until_complete returns at once
RunFinally ==
    /\ pc = "loops"
    /\ fg = "exited"
    /\ IF bg = "dead"
       THEN /\ pc' = "returned"
            /\ bgCancel' = bgCancel
       ELSE /\ pc' = "stopping"
            /\ bgCancel' = TRUE
    /\ UNCHANGED << config, script, files, wire, parser_buf, default_script, input_text, accepted,
                    fg, bg, sleeptime, trace >>

\* the cancelled task is resumed with CancelledError at its suspension point
\* (await asyncio.sleep, or its first step) and ends
BgCancelled ==
    /\ pc = "stopping"
    /\ bgCancel
    /\ bg \in {"pending", "sleeping"}
    /\ bg' = "cancelled"
    /\ UNCHANGED << pc, config, script, files, wire, parser_buf, default_script, input_text,
                    accepted, fg, bgCancel, sleeptime, trace >>

\* loop.run_until_complete(background_task) ends once the task has ended
RunReturn ==
    /\ pc = "stopping"
    /\ bg = "cancelled"
    /\ pc' = "returned"
    /\ UNCHANGED << config, script, files, wire, parser_buf, default_script, input_text, accepted,
                    fg, bg, bgCancel, sleeptime, trace >>

\* ------------------------------------------------------------- foreground
\* the operator edits the input field
TypeLine ==
    /\ pc = "loops"
    /\ fg = "running"
    /\ Len(accepted) < MaxLines
    /\ \E t \in SessionLines : input_text' = t
    /\ UNCHANGED << pc, config, script, files, wire, parser_buf, default_script, accepted,
                    fg, bg, bgCancel, sleeptime, trace >>

\* c-c / c-q: event.app.exit()
KeyExit ==
    /\ pc = "loops"
    /\ fg = "running"
    /\ fg' = "exited"
    /\ UNCHANGED << pc, config, script, files, wire, parser_buf, default_script, input_text,
                    accepted, bg, bgCancel, sleeptime, trace >>

HasTransportCall(calls) == \E i \in 1..Len(calls) : calls[i].op \in TransportOps

\* the echo shown after the line has been dispatched
accept_input_echo_last(text, res, fault) ==
    LET echo == Ev("fg", "show", Echo(text))
    IN  IF res.raises = "ExitDruid"
        THEN /\ trace' = trace \o << echo, Ev("fg", "print", Bye) >>
             /\ fg' = "exited"
        ELSE IF fault
        THEN /\ trace' = (trace \o res.calls)
                           \o << Ev("fg", "raise", <<"Exception">>),
                                 Ev("fg", "log", <<"error processing input">>), echo >>
             /\ fg' = fg
        ELSE /\ trace' = (trace \o res.calls) \o <<echo>>
             /\ fg' = fg

\* ExitDruid handled by the generic handler: logged, the loop goes on
accept_input_exit_swallowed(text, res, fault) ==
    LET echo == Ev("fg", "show", Echo(text))
    IN  IF res.raises = "ExitDruid" \/ fault
        THEN /\ trace' = (trace \o <<echo>> \o res.calls)
                           \o << Ev("fg", "raise", <<"Exception">>),
                                 Ev("fg", "log", <<"error processing input">>) >>
             /\ fg' = fg
        ELSE /\ trace' = trace \o <<echo>> \o res.calls
             /\ fg' = fg

\* no generic handler: a fault of the interpreter ends the application
accept_input_fault_fatal(text, res, fault) ==
    LET echo == Ev("fg", "show", Echo(text))
    IN  IF res.raises = "ExitDruid"
        THEN /\ trace' = trace \o << echo, Ev("fg", "print", Bye) >>
             /\ fg' = "exited"
        ELSE IF fault
        THEN /\ trace' = (trace \o <<echo>> \o res.calls)
                           \o << Ev("fg", "raise", <<"Exception">>) >>
             /\ fg' = "exited"
        ELSE /\ trace' = trace \o <<echo>> \o res.calls
             /\ fg' = fg

\* DruidRepl.accept_input: echo, parse, ExitDruid -> bye + exit, any other
\* Exception -> logging.error.  A Transport call made by parse may raise.
accept_input(text, res, fault) ==
    LET echo == Ev("fg", "show", Echo(text))
    IN  IF res.raises = "ExitDruid"
        THEN /\ trace' = trace \o << echo, Ev("fg", "print", Bye) >>
             /\ fg' = "exited"
        ELSE IF fault
        THEN /\ trace' = (trace \o <<echo>> \o res.calls)
                           \o << Ev("fg", "raise", <<"Exception">>),
                                 Ev("fg", "log", <<"error processing input">>) >>
             /\ fg' = fg
        ELSE /\ trace' = trace \o <<echo>> \o res.calls
             /\ fg' = fg

AcceptInput ==
    /\ pc = "loops"
    /\ fg = "running"
    /\ Len(accepted) < MaxLines
    /\ LET res == parse(input_text, default_script, files)
       IN  \E fault \in BOOLEAN :
              /\ fault => HasTransportCall(res.calls)
              /\ accept_input(input_text, res, fault)
    /\ accepted' = Append(accepted, input_text)
    /\ UNCHANGED << pc, config, script, files, wire, parser_buf, default_script, input_text,
                    bg, bgCancel, sleeptime >>

\* ------------------------------------------------ DruidRepl.__init__ wiring
\* the two handlers registered in the opposite order
capture_handlers_reversed == << "handler2", "handler1" >>

\* the two capture handlers, in the order of the capture_handlers list
capture_handlers == << "handler1", "handler2" >>

\* event_handlers={'stream': capture_handlers, 'change': capture_handlers}
event_handlers == [stream |-> capture_handlers, change |-> capture_handlers]

\* '\ninput[{}] = {}\n'.format(args[0], args[1])
CaptureText(index, value) ==
    << "\n", "i", "n", "p", "u", "t", "[", index, "]", " ", "=", " ", value, "\n" >>

\* the body of a handler: handler1 shows on capture1_tty, handler2 on
\* capture2_tty
capture_show(h, index, value) ==
    Ev("bg", IF h = "handler1" THEN "show1" ELSE "show2", CaptureText(index, value))

\* ------------------------------------------------------------- CrowParser
\* Framing: the lines that data completes, and the partial line left over.
RECURSIVE frame(_, _, _)
frame(data, cur, done) ==
    IF data = <<>> THEN [lines |-> done, rest |-> cur]
    ELSE IF Head(data) = "\n" THEN frame(Tail(data), <<>>, Append(done, cur))
    ELSE frame(Tail(data), Append(cur, Head(data)), done)

\* Classification: the two line shapes that carry an index and a value.
classify(line) ==
    IF Len(line) = 3 /\ line[2] \in Digits /\ line[3] \in Digits /\ line[1] = "s"
    THEN "stream"
    ELSE IF Len(line) = 3 /\ line[2] \in Digits /\ line[3] \in Digits /\ line[1] = "c"
    THEN "change"
    ELSE "text"

\* Every handler of the kind, in registration order, with the same
\* (line, event, args); a handler that throws is caught and logged.
RECURSIVE run_handlers(_, _, _, _)
run_handlers(hs, kind, line, faulty) ==
    IF hs = <<>> THEN <<>>
    ELSE LET h    == Head(hs)
             call == Ev("bg", h, <<kind, line[2], line[3]>> \o line)
             body == IF h \in faulty
                     THEN << Ev("bg", "raise", <<h>>), Ev("bg", "log", <<h>>) >>
                     ELSE << capture_show(h, line[2], line[3]) >>
         IN  (<<call>> \o body) \o run_handlers(Tail(hs), kind, line, faulty)

\* One completed line: shown on the Sink, and for a stream or a change line
\* the event is emitted to the handlers of its kind.
line_events(line, faulty) ==
    LET kind == classify(line)
    IN  IF kind = "text" THEN << Ev("bg", "show", line) >>
        ELSE << Ev("bg", "show", line), Ev("bg", "emit", <<kind, line[2], line[3]>>) >>
                 \o run_handlers(event_handlers[kind], kind, line, faulty)

RECURSIVE lines_events(_, _)
lines_events(lines, faulty) ==
    IF lines = <<>> THEN <<>>
    ELSE line_events(Head(lines), faulty) \o lines_events(Tail(lines), faulty)

\* CrowParser.parse(r): the retained partial line is prepended to the chunk
crow_parse(buf, r, faulty) ==
    LET f == frame(buf \o r, <<>>, <<>>)
    IN  [buf |-> f.rest, events |-> lines_events(f.lines, faulty)]

\* ------------------------------------------------------------- background
\* the except-branch of process_crow_output, entered once the exception
\* matched: show, sleeptime, logger.info, crow.connect(self.on_connect)
on_read_failure(reconnected) ==
    IF reconnected
    THEN /\ trace' = trace \o << Ev("bg", "read", <<"raise">>),
                                 Ev("bg", "show", LostConnection),
                                 Ev("bg", "log", <<"info">>),
                                 Ev("bg", "connect", <<"on_connect">>),
                                 Ev("bg", "show", Connected) >>
         /\ sleeptime' = SleepReconnect
         /\ bg' = "sleeping"
    ELSE /\ trace' = trace \o << Ev("bg", "read", <<"raise">>),
                                 Ev("bg", "show", LostConnection),
                                 Ev("bg", "log", <<"info">>),
                                 Ev("bg", "connect", <<"on_connect">>) >>
         /\ sleeptime' = SleepReconnect
         /\ bg' = "dead"

\* an iteration that feeds the parser only chunks of more than one byte
process_crow_output_drop_short(failed, r, reconnected, faulty) ==
    IF failed
    THEN /\ parser_buf' = parser_buf
         /\ IF NameDefined("SerialException")
            THEN on_read_failure(reconnected)
            ELSE /\ trace' = Append(trace, Ev("bg", "read", <<"raise">>))
                 /\ sleeptime' = SleepConnected
                 /\ bg' = "dead"
    ELSE /\ IF Len(r) > 1
            THEN LET res == crow_parse(parser_buf, r, faulty)
                 IN  /\ trace' = (trace \o << Ev("bg", "read", r), Ev("bg", "feed", r) >>)
                                    \o res.events
                     /\ parser_buf' = res.buf
            ELSE /\ trace' = Append(trace, Ev("bg", "read", r))
                 /\ parser_buf' = parser_buf
         /\ sleeptime' = SleepConnected
         /\ bg' = "sleeping"

\* an iteration that hands the chunk to the parser twice
process_crow_output_feed_twice(failed, r, reconnected, faulty) ==
    IF failed
    THEN /\ parser_buf' = parser_buf
         /\ IF NameDefined("SerialException")
            THEN on_read_failure(reconnected)
            ELSE /\ trace' = Append(trace, Ev("bg", "read", <<"raise">>))
                 /\ sleeptime' = SleepConnected
                 /\ bg' = "dead"
    ELSE /\ IF Len(r) > 0
            THEN LET res  == crow_parse(parser_buf, r, faulty)
                     res2 == crow_parse(res.buf, r, faulty)
                 IN  /\ trace' = ((trace \o << Ev("bg", "read", r), Ev("bg", "feed", r) >>)
                                    \o res.events) \o (<< Ev("bg", "feed", r) >> \o res2.events)
                     /\ parser_buf' = res2.buf
            ELSE /\ trace' = Append(trace, Ev("bg", "read", r))
                 /\ parser_buf' = parser_buf
         /\ sleeptime' = SleepConnected
         /\ bg' = "sleeping"

\* one iteration of process_crow_output, from wake-up to the next
\* await asyncio.sleep(sleeptime)
process_crow_output(failed, r, reconnected, faulty) ==
    IF failed
    THEN \* except SerialException as exc: the name is looked up when
         \* an exception has to be matched
         /\ parser_buf' = parser_buf
         /\ IF NameDefined("SerialException")
            THEN on_read_failure(reconnected)
            ELSE /\ trace' = Append(trace, Ev("bg", "read", <<"raise">>))
                 /\ sleeptime' = SleepConnected
                 /\ bg' = "dead"
    ELSE /\ IF Len(r) > 0
            THEN LET res == crow_parse(parser_buf, r, faulty)
                 IN  /\ trace' = (trace \o << Ev("bg", "read", r), Ev("bg", "feed", r) >>)
                                    \o res.events
                     /\ parser_buf' = res.buf
            ELSE /\ trace' = Append(trace, Ev("bg", "read", r))
                 /\ parser_buf' = parser_buf
         /\ sleeptime' = SleepConnected
         /\ bg' = "sleeping"

\* a background task whose uncaught exception stops the application
BgIterate_ends_foreground ==
    /\ pc = "loops" /\ bg \in {"pending", "sleeping"} /\ ~bgCancel /\ Polls < MaxPolls
    /\ \E failed \in BOOLEAN, n \in 0..Len(wire), reconnected \in BOOLEAN,
          faulty \in SUBSET {"handler1", "handler2"} :
          /\ n <= ReadMax
          /\ process_crow_output(failed, SubSeq(wire, 1, n), reconnected, faulty)
          /\ wire' = IF failed THEN wire ELSE SubSeq(wire, n + 1, Len(wire))
    /\ fg' = IF bg' = "dead" THEN "exited" ELSE fg
    /\ UNCHANGED << pc, config, script, files, default_script, input_text, accepted, bgCancel >>

\* crow.read(10000) returns at most ReadMax of the bytes that have arrived
BgIterate ==
    /\ pc = "loops"
    /\ bg \in {"pending", "sleeping"}
    /\ ~bgCancel
    /\ Polls < MaxPolls
    /\ \E failed \in BOOLEAN, n \in 0..Len(wire), reconnected \in BOOLEAN,
          faulty \in SUBSET {"handler1", "handler2"} :
          /\ n <= ReadMax
          /\ process_crow_output(failed, SubSeq(wire, 1, n), reconnected, faulty)
          /\ wire' = IF failed THEN wire ELSE SubSeq(wire, n + 1, Len(wire))
    /\ UNCHANGED << pc, config, script, files, default_script, input_text,
                    accepted, fg, bgCancel >>

\* ---------------------------------------------------------- specifications
Next ==
    \/ RunConnect
    \/ RunExecute
    \/ RunSetup
    \/ TypeLine
    \/ AcceptInput
    \/ KeyExit
    \/ BgIterate
    \/ RunFinally
    \/ BgCancelled
    \/ RunReturn

Spec == Init /\ [][Next]_vars

\* the command interpreter alone: the loops have just started and the
\* operator has typed any line of up to MaxLen characters
InitParse ==
    /\ pc = "loops"
    /\ config \in Configs
    /\ script = <<>>
    /\ files \in SUBSET CandidateFiles
    /\ wire = <<>>
    /\ parser_buf = <<>>
    /\ default_script = DefaultScript(config)
    /\ input_text \in Lines
    /\ accepted = <<>>
    /\ fg = "running"
    /\ bg = "pending"
    /\ bgCancel = FALSE
    /\ sleeptime = 0
    /\ trace = << Ev("run", "connect", <<>>) >>

NextParse ==
    \/ AcceptInput
    \/ RunFinally
    \/ BgCancelled
    \/ RunReturn

SpecParse == InitParse /\ [][NextParse]_vars

\* the background loop alone: the loops have just started and the device
\* sends any bytes of up to MaxWire, which the reads cut at any offsets
InitFraming ==
    /\ pc = "loops"
    /\ config = EmptyMap
    /\ script = <<>>
    /\ files = {}
    /\ wire \in Wires
    /\ parser_buf = <<>>
    /\ default_script = DefaultScript(config)
    /\ input_text = <<>>
    /\ accepted = <<>>
    /\ fg = "running"
    /\ bg = "pending"
    /\ bgCancel = FALSE
    /\ sleeptime = 0
    /\ trace = << Ev("run", "connect", <<>>) >>

NextFraming ==
    \/ BgIterate
    \/ KeyExit
    \/ RunFinally
    \/ BgCancelled
    \/ RunReturn

SpecFraming == InitFraming /\ [][NextFraming]_vars

TypeOK ==
    /\ pc \in {"start", "execute", "setup", "loops", "stopping", "returned", "exit1", "crashed"}
    /\ fg \in {"none", "running", "exited"}
    /\ bg \in {"none", "pending", "sleeping", "dead", "cancelled"}
    /\ bgCancel \in BOOLEAN
    /\ sleeptime \in {0, SleepConnected, SleepReconnect}
    /\ Len(accepted) <= MaxLines

\* ------------------------------------------------- vocabulary of the claims
\* One step of accept_input, the events it appended, and the accepted line
\* read declaratively (not through split1).
AcceptStep == Len(accepted') = Len(accepted) + 1
NewEvents  == SubSeq(trace', Len(trace) + 1, Len(trace'))

TransportCalls(seq) == SelectSeq(seq, LAMBDA e : e.op \in TransportOps)
SinkCalls(seq)      == SelectSeq(seq, LAMBDA e : e.op = "show")
BgEvents(seq)       == SelectSeq(seq, LAMBDA e : e.actor = "bg")
Last(seq)           == seq[Len(seq)]

Blank(line) == \A i \in 1..Len(line) : line[i] \in Whitespace
TokStart(line) ==
    CHOOSE i \in 1..Len(line) :
        line[i] \notin Whitespace /\ \A j \in 1..(i - 1) : line[j] \in Whitespace
TokEnd(line) ==
    CHOOSE j \in TokStart(line)..Len(line) :
        /\ \A k \in TokStart(line)..j : line[k] \notin Whitespace
        /\ j = Len(line) \/ line[j + 1] \in Whitespace
CommandToken(line) == SubSeq(line, TokStart(line), TokEnd(line))
TokenIs(line, t)   == ~Blank(line) /\ CommandToken(line) = <<t>>
HasRemainder(line) ==
    \E k \in (TokEnd(line) + 1)..Len(line) : line[k] \notin Whitespace
Remainder(line) ==
    LET k == CHOOSE k \in (TokEnd(line) + 1)..Len(line) :
                 /\ line[k] \notin Whitespace
                 /\ \A j \in (TokEnd(line) + 1)..(k - 1) : line[j] \in Whitespace
    IN  SubSeq(line, k, Len(line))

ReadFailure == Ev("bg", "read", <<"raise">>)
ReadFailed  == \E i \in 1..Len(trace) : trace[i] = ReadFailure

\* ------------------------------------------------------------------- C1
\* C1: after a Transport read failure the background loop keeps running:
\* it has not ended unless it was cancelled.
C1_LoopSurvivesReadFailure ==
    ReadFailed => (bg = "sleeping" \/ (bg = "cancelled" /\ bgCancel))

\* ------------------------------------------------------------------- C2
\* C2: every read failure is followed at once by the disconnect indicator
\* and then a reconnect attempt, and the connect indicator is shown only
\* right after a reconnect attempt.
C2_IndicatorsInOrder ==
    \A i \in 1..Len(trace) :
        /\ trace[i] = ReadFailure =>
              /\ i + 3 <= Len(trace)
              /\ trace[i + 1] = Ev("bg", "show", LostConnection)
              /\ trace[i + 3].op = "connect"
        /\ trace[i] = Ev("bg", "show", Connected) =>
              /\ i > 4
              /\ trace[i - 1].op = "connect"
              /\ trace[i - 4] = ReadFailure

\* ------------------------------------------------------------------- C3
\* C3: a line whose first whitespace-delimited token is q, with or
\* without a remainder, makes no Transport call and ends the foreground
\* loop.
C3_QuitTerminates ==
    [][ (AcceptStep /\ TokenIs(input_text, "q")) =>
            /\ TransportCalls(NewEvents) = <<>>
            /\ fg' = "exited" ]_vars

C3_Witness ==
    /\ accepted # <<>>
    /\ Last(accepted) = <<"q", " ", "a">>
    /\ fg = "exited"
    /\ Last(trace) = Ev("fg", "print", Bye)

\* ------------------------------------------------------------------- C4
\* C4: r (resp. u) without remainder executes (uploads) the default path;
\* with a remainder naming an existing file it executes (uploads) that
\* path; with any other remainder it writes the whole line plus "\r\n".
C4_Expected(line, op) ==
    IF ~HasRemainder(line) THEN << Ev("fg", op, default_script) >>
    ELSE IF Remainder(line) \in files THEN << Ev("fg", op, Remainder(line)) >>
    ELSE << Ev("fg", "write", line \o <<"\r", "\n">>) >>

C4_RunUploadThreeWay ==
    [][ AcceptStep =>
            /\ TokenIs(input_text, "r") =>
                  TransportCalls(NewEvents) = C4_Expected(input_text, "execute")
            /\ TokenIs(input_text, "u") =>
                  TransportCalls(NewEvents) = C4_Expected(input_text, "upload") ]_vars

C4_Witness ==
    /\ accepted = << <<"u", " ", "a">> >>
    /\ <<"a">> \in files
    /\ TransportCalls(trace) = << Ev("run", "connect", <<>>), Ev("fg", "upload", <<"a">>) >>

\* ------------------------------------------------------------------- C5
Recognized(line) ==
    \E t \in {"q", "r", "u", "p", "h"} : TokenIs(line, t)

\* C5 as stated: any line not made of one of the five command tokens makes
\* exactly one write(line + "\r\n") and no other Transport call.
C5_AnyOtherLineIsWritten ==
    [][ (AcceptStep /\ ~Recognized(input_text)) =>
            TransportCalls(NewEvents)
                = << Ev("fg", "write", input_text \o <<"\r", "\n">>) >> ]_vars

\* C5 amended: any line with a command token other than the five makes
\* exactly one write(line + "\r\n") and no other Transport call.
C5_OtherTokenIsWritten ==
    [][ (AcceptStep /\ ~Blank(input_text) /\ ~Recognized(input_text)) =>
            TransportCalls(NewEvents)
                = << Ev("fg", "write", input_text \o <<"\r", "\n">>) >> ]_vars

C5_Witness ==
    /\ accepted = << <<" ", "a", "q">> >>
    /\ TransportCalls(trace)
         = << Ev("run", "connect", <<>>), Ev("fg", "write", <<" ", "a", "q", "\r", "\n">>) >>

\* ------------------------------------------------------------------- C6
\* C6: a line whose command token is p, whatever follows, makes exactly
\* one writeline("^^p") and no other Transport call.
C6_PrintIsOneWriteline ==
    [][ (AcceptStep /\ TokenIs(input_text, "p")) =>
            TransportCalls(NewEvents)
                = << Ev("fg", "writeline", <<"^", "^", "p">>) >> ]_vars

C6_Witness ==
    /\ accepted = << <<"p", " ", "a">> >>
    /\ Last(trace).op \in {"writeline", "log"}
    /\ Len(TransportCalls(trace)) = 2

\* ------------------------------------------------------------------- C7
\* C7: a line whose command token is h makes no Transport call, and the
\* interpreter shows the help text on the Sink exactly once (after the
\* echo of the line, which accept_input shows).
C7_HelpIsOneShow ==
    [][ (AcceptStep /\ TokenIs(input_text, "h")) =>
            /\ TransportCalls(NewEvents) = <<>>
            /\ NewEvents = << Ev("fg", "show", Echo(input_text)),
                              Ev("fg", "show", DRUID_HELP) >> ]_vars

C7_Witness ==
    /\ accepted = << <<"h">> >>
    /\ Last(trace) = Ev("fg", "show", DRUID_HELP)
    /\ Len(SinkCalls(trace)) = 2

\* ------------------------------------------------------------------- C8
\* C8: an empty or all-whitespace line makes no Transport call, does not
\* end the foreground loop and raises nothing (nothing is logged).
C8_BlankLineIsNoOp ==
    [][ (AcceptStep /\ Blank(input_text)) =>
            /\ NewEvents = << Ev("fg", "show", Echo(input_text)) >>
            /\ fg' = "running" ]_vars

C8_Witness ==
    /\ accepted = << <<" ", " ">>, <<" ", " ">> >>
    /\ fg = "running"
    /\ Len(trace) = 3

\* ------------------------------------------------------------------- C9
Raised      == Ev("fg", "raise", <<"Exception">>)
FaultStep   == AcceptStep /\ \E i \in 1..Len(NewEvents) : NewEvents[i] = Raised
FaultBefore == \E i \in 1..Len(trace) : trace[i] = Raised

\* what dispatching the line in the input field does when nothing faulted
\* before: the echo first, then the effect its command token stands for
NormalDispatch ==
    /\ NewEvents[1] = Ev("fg", "show", Echo(input_text))
    /\ TokenIs(input_text, "q") <=> fg' = "exited"
    /\ TokenIs(input_text, "h") => NewEvents[2] = Ev("fg", "show", DRUID_HELP)
    /\ TokenIs(input_text, "r") =>
          NewEvents[2] = C4_Expected(input_text, "execute")[1]
    /\ Blank(input_text) => Len(NewEvents) = 1

\* C9: a fault raised while a line is dispatched is caught and logged, the
\* foreground loop keeps running, the default script path is unchanged and
\* later lines are accepted and dispatched as usual.
C9_FaultIsContained ==
    /\ [][ FaultStep =>
              /\ fg' = "running"
              /\ pc' = "loops"
              /\ default_script' = default_script
              /\ Last(trace') = Ev("fg", "log", <<"error processing input">>) ]_vars
    /\ [][ (AcceptStep /\ FaultBefore) => NormalDispatch ]_vars
    /\ [](( /\ FaultBefore
            /\ pc = "loops"
            /\ fg = "running"
            /\ Len(accepted) < MaxLines ) => ENABLED AcceptInput)

C9_Witness ==
    /\ fg = "running"
    /\ \E i, j \in 1..Len(trace) :
          /\ i < j
          /\ trace[i] = Raised
          /\ trace[j].actor = "fg"
          /\ trace[j].op = "write"

\* ------------------------------------------------------------------ C10
\* C10: run() cancels the background task only once the foreground loop
\* has ended, the background task does nothing after the cancellation, and
\* run() returns only when the background task has ended.
C10_StopIsOrdered ==
    /\ [](bgCancel => fg = "exited")
    /\ [](pc = "returned" => (fg = "exited" /\ bg \in {"cancelled", "dead"}))
    /\ [][ (bgCancel \/ pc = "returned") =>
              BgEvents(trace') = BgEvents(trace) ]_vars

C10_Witness ==
    /\ pc = "returned"
    /\ bg = "cancelled"
    /\ BgEvents(trace) # <<>>
    /\ accepted # <<>>

\* ------------------------------------------------------------------ C11
BgReads == SelectSeq(trace, LAMBDA e : e.actor = "bg" /\ e.op = "read")

\* C11: after an iteration whose read failed the loop sleeps the long
\* interval, which is greater than the short one; after an iteration whose
\* read succeeded it sleeps the short interval.
C11_BackoffAfterFailure ==
    BgReads # <<>> =>
        IF Last(BgReads) = ReadFailure
        THEN /\ bg \in {"sleeping", "cancelled"}
             /\ sleeptime = SleepReconnect
             /\ SleepReconnect > SleepConnected
        ELSE sleeptime = SleepConnected

\* ------------------------------------------------------------------ C12
\* C12: when the initial connect finds no device, run() prints the
\* message and exits with status 1: nothing else is called on the
\* Transport, no script is executed, no loop is created, nothing follows.
C12_NoDeviceExits ==
    /\ [](pc = "exit1" =>
            /\ trace = << Ev("run", "connect", <<>>),
                          Ev("run", "print", <<"DeviceNotFoundError">>),
                          Ev("run", "exit", <<"1">>) >>
            /\ fg = "none"
            /\ bg = "none"
            /\ default_script = <<>>)
    /\ [][ pc = "exit1" => UNCHANGED vars ]_vars
    /\ [](\A i \in 1..Len(trace) :
            trace[i] = Ev("run", "print", <<"DeviceNotFoundError">>) => pc = "exit1")

C12_Witness ==
    /\ pc = "exit1"
    /\ script # <<>>
    /\ Last(trace) = Ev("run", "exit", <<"1">>)

\* ------------------------------------------------------------------ C13
StartupExecutes ==
    SelectSeq(trace, LAMBDA e : e.actor = "run" /\ e.op = "execute")

\* C13: a script argument is executed exactly once, right after the
\* successful connect and before any event of either loop; without a
\* script argument nothing is executed at startup.
C13_ScriptRunsOnceBeforeLoops ==
    /\ script = <<>> => StartupExecutes = <<>>
    /\ pc \in {"setup", "loops", "stopping", "returned"} =>
          StartupExecutes = (IF script = <<>> THEN <<>>
                             ELSE << Ev("run", "execute", script[1]) >>)
    /\ \A i \in 1..Len(trace) :
          (trace[i].actor = "run" /\ trace[i].op = "execute") =>
              /\ i = 2
              /\ trace[1] = Ev("run", "connect", <<>>)

C13_Witness ==
    /\ pc = "loops"
    /\ script # <<>>
    /\ trace[2] = Ev("run", "execute", script[1])
    /\ BgReads # <<>>
    /\ accepted # <<>>

\* ------------------------------------------------------------------ C14
NonEmptyReads ==
    SelectSeq(trace, LAMBDA e : /\ e.actor = "bg"
                                /\ e.op = "read"
                                /\ e.arg # <<>>
                                /\ e.arg # <<"raise">>)
Emits == SelectSeq(trace, LAMBDA e : e.op = "emit")

\* C14: when the bytes of one stream line arrive in two consecutive
\* non-empty reads, cut at any offset, the first chunk's partial line is
\* retained (no event yet) and the second read completes exactly one Stream
\* event with the line's index and value.
C14_SplitStreamLineOneEvent ==
    \A i \in Digits, v \in Digits :
        LET line == <<"s", i, v, "\n">>
        IN  /\ ( /\ Len(NonEmptyReads) = 1
                 /\ \E k \in 1..3 : NonEmptyReads[1].arg = SubSeq(line, 1, k) ) =>
                    /\ Emits = <<>>
                    /\ parser_buf = NonEmptyReads[1].arg
            /\ ( /\ Len(NonEmptyReads) = 2
                 /\ NonEmptyReads[1].arg \o NonEmptyReads[2].arg = line ) =>
                    /\ Emits = << Ev("bg", "emit", <<"stream", i, v>>) >>
                    /\ parser_buf = <<>>

C14_Witness ==
    /\ Len(NonEmptyReads) = 2
    /\ NonEmptyReads[1].arg = <<"s">>
    /\ NonEmptyReads[2].arg = <<"2", "1", "\n">>
    /\ Emits = << Ev("bg", "emit", <<"stream", "2", "1">>) >>

\* ------------------------------------------------------------------ C15
HandlerTrace ==
    SelectSeq(trace, LAMBDA e : e.op \in {"emit", "handler1", "handler2"})

\* C15: every stream or change event is passed to the first and then to
\* the second registered handler with the same line, kind and (index,
\* value); a handler that throws is caught and logged and the next handler,
\* and the handlers of later events, are invoked all the same.
C15_HandlersIsolated ==
    /\ Len(HandlerTrace) = 3 * Len(Emits)
    /\ \A k \in 1..Len(Emits) :
          LET e  == HandlerTrace[3 * k - 2]
              h1 == HandlerTrace[3 * k - 1]
              h2 == HandlerTrace[3 * k]
          IN  /\ e.op = "emit"
              /\ e.arg[1] \in {"stream", "change"}
              /\ h1.op = "handler1"
              /\ h2.op = "handler2"
              /\ h1.arg = h2.arg
              /\ SubSeq(h1.arg, 1, 3) = e.arg
              /\ SubSeq(h1.arg, 5, 6) = SubSeq(e.arg, 2, 3)
    /\ \A p \in 1..Len(trace) :
          /\ trace[p] = Ev("bg", "raise", <<"handler1">>) =>
                /\ p + 2 <= Len(trace)
                /\ trace[p + 1] = Ev("bg", "log", <<"handler1">>)
                /\ trace[p + 2].op = "handler2"
          /\ trace[p].op = "handler1" =>
                /\ p < Len(trace)
                /\ trace[p + 1] \in { Ev("bg", "raise", <<"handler1">>),
                                      Ev("bg", "show1", CaptureText(trace[p].arg[2], trace[p].arg[3])) }
          /\ trace[p].op = "handler2" =>
                /\ p < Len(trace)
                /\ trace[p + 1] \in { Ev("bg", "raise", <<"handler2">>),
                                      Ev("bg", "show2", CaptureText(trace[p].arg[2], trace[p].arg[3])) }

C15_Witness ==
    \E p, q \in 1..Len(trace) :
        /\ p < q
        /\ trace[p] = Ev("bg", "raise", <<"handler1">>)
        /\ trace[p + 2] = Ev("bg", "handler2", <<"change", "1", "2", "c", "1", "2">>)
        /\ trace[p + 3].op = "show2"
        /\ trace[q] = Ev("bg", "handler1", <<"stream", "2", "1", "s", "2", "1">>)
        /\ trace[q + 1].op = "show1"

\* ------------------------------------------------------------------ C16
Constructed == pc \in {"loops", "stopping", "returned"}

\* C16: once the interpreter is constructed its default script path is
\* "./sketch.lua" when the config has no scripts.default (no scripts, or
\* scripts without default) and the value of scripts.default otherwise, and
\* it never changes afterwards.
C16_DefaultScriptFromConfig ==
    /\ [](Constructed =>
            /\ DOMAIN config = {} =>
                  default_script = <<".", "/", "s", "k", "e", "t", "c", "h", ".", "l", "u", "a">>
            /\ (DOMAIN config = {"scripts"} /\ DOMAIN config["scripts"] = {}) =>
                  default_script = <<".", "/", "s", "k", "e", "t", "c", "h", ".", "l", "u", "a">>
            /\ (DOMAIN config = {"scripts"} /\ "default" \in DOMAIN config["scripts"]) =>
                  default_script = config["scripts"]["default"])
    /\ [][ Constructed => default_script' = default_script ]_vars

C16_Witness ==
    /\ pc = "returned"
    /\ DOMAIN config = {"scripts"}
    /\ DOMAIN config["scripts"] = {}
    /\ default_script = <<".", "/", "s", "k", "e", "t", "c", "h", ".", "l", "u", "a">>
    /\ Len(accepted) = MaxLines

\* ------------------------------------------------------------------ C17
\* C17: once the loops run, read is called only by the background loop and
\* write, writeline, execute and upload only by the foreground's command
\* interpreter; a read that returned bytes is followed at once by the
\* parser being fed those bytes, with no call of the other task between.
C17_TransportLanes ==
    \A i \in 1..Len(trace) :
        LET e == trace[i]
        IN  /\ (e.actor # "run" /\ e.op = "read") => e.actor = "bg"
            /\ (e.actor # "run" /\ e.op \in {"write", "writeline", "execute", "upload"}) =>
                  e.actor = "fg"
            /\ (e.op = "read" /\ e.arg # <<>> /\ e.arg # <<"raise">>) =>
                  /\ i < Len(trace)
                  /\ trace[i + 1] = Ev("bg", "feed", e.arg)
            /\ e.op = "feed" => trace[i - 1] = Ev("bg", "read", e.arg)

C17_Witness ==
    \E i, j, k \in 1..Len(trace) :
        /\ i < j /\ j + 1 < k
        /\ trace[i].actor = "fg" /\ trace[i].op = "write"
        /\ trace[j].actor = "bg" /\ trace[j].op = "read" /\ trace[j].arg = <<"1">>
        /\ trace[k].actor = "fg" /\ trace[k].op = "write"

\* ------------------------------------------------------------------ C18
Feeds   == SelectSeq(trace, LAMBDA e : e.op = "feed")
FgCalls == SelectSeq(trace, LAMBDA e : e.actor = "fg" /\ e.op \in TransportOps)

RECURSIVE ConcatArgs(_)
ConcatArgs(events) ==
    IF events = <<>> THEN <<>> ELSE Head(events).arg \o ConcatArgs(Tail(events))

\* the Transport calls the dispatch table gives for one line
ExpectedCalls(line) ==
    IF Blank(line) \/ TokenIs(line, "q") \/ TokenIs(line, "h") THEN <<>>
    ELSE IF TokenIs(line, "p") THEN << Ev("fg", "writeline", <<"^", "^", "p">>) >>
    ELSE IF TokenIs(line, "r") THEN C4_Expected(line, "execute")
    ELSE IF TokenIs(line, "u") THEN C4_Expected(line, "upload")
    ELSE << Ev("fg", "write", line \o <<"\r", "\n">>) >>

RECURSIVE ExpectedCallsOf(_)
ExpectedCallsOf(lines) ==
    IF lines = <<>> THEN <<>>
    ELSE ExpectedCalls(Head(lines)) \o ExpectedCallsOf(Tail(lines))

BgDead == bg = "dead"

\* C19: when the background task ends with an uncaught exception the
\* foreground loop and run() are left as they were; from then on the
\* foreground still accepts lines and dispatches them as the dispatch table
\* says, it ends only by a q line or an exit key, and the background makes
\* no further Transport read or reconnect.
C19_BackgroundFailureAbsorbed ==
    /\ [][ (BgDead' /\ ~BgDead) => (fg' = fg /\ pc' = pc /\ accepted' = accepted) ]_vars
    /\ [](( /\ BgDead
            /\ pc = "loops"
            /\ fg = "running"
            /\ Len(accepted) < MaxLines ) => ENABLED AcceptInput)
    /\ [][ (BgDead /\ AcceptStep) =>
              TransportCalls(NewEvents) = ExpectedCalls(input_text) ]_vars
    /\ [][ (BgDead /\ fg = "running" /\ fg' # "running") =>
              \/ AcceptStep /\ TokenIs(input_text, "q")
              \/ trace' = trace /\ accepted' = accepted ]_vars
    /\ [][ BgDead => (BgDead' /\ BgEvents(trace') = BgEvents(trace)) ]_vars

C19_Witness ==
    /\ BgDead
    /\ pc = "returned"
    /\ \E i, j \in 1..Len(trace) :
          /\ i < j
          /\ trace[i] = ReadFailure
          /\ trace[j].actor = "fg" /\ trace[j].op = "execute"
    /\ Last(trace) = Ev("fg", "print", Bye)

\* ------------------------------------------------------------------ C20
EchoOf(line) == Ev("fg", "show", <<"\n", ">", " ">> \o line \o <<"\n">>)

\* C20: every accepted line, blank, q or faulting alike, is shown as
\* "\n> <line>\n" exactly once, before every other event of its dispatch.
C20_EchoBeforeDispatch ==
    [][ AcceptStep =>
          /\ NewEvents # <<>>
          /\ NewEvents[1] = EchoOf(input_text)
          /\ Cardinality({ i \in 1..Len(NewEvents) : NewEvents[i] = EchoOf(input_text) }) = 1
          /\ Len(SelectSeq(trace', LAMBDA e : e = EchoOf(input_text)))
                = Len(SelectSeq(accepted', LAMBDA l : l = input_text))
      ]_vars

C20_Witness ==
    /\ Len(accepted) = MaxLines
    /\ \A k \in 1..Len(accepted) : accepted[k] = <<"a", " ", "q">>
    /\ trace[2] = EchoOf(<<"a", " ", "q">>)
    /\ trace[3].op = "write"
    /\ trace[4] = Raised
    /\ Last(trace).op = "write"

====
